---- MODULE Spec2Model ----
(***************************************************************************)
(* Model of ts-optional: the class Optional<T> (src/src/optional-value.ts) *)
(* and NoSuchElementException (src/unnamed/part_000).                      *)
(*                                                                         *)
(* The heap of Optional instances is the sequence objs: objs[i] is the     *)
(* private field _value of instance i.  Every method is an operator that   *)
(* computes, from the receiver's _value and the arguments, the outcome of  *)
(* the call (returned value or thrown error), the new _value and the       *)
(* invocations of the caller-supplied function.  Every call, Optional.of   *)
(* included, is one action that applies the operator and appends what the  *)
(* caller observed to log.                                                 *)
(* ifPresentAsync is split at its await: the call runs up to the await,    *)
(* the awaited promise settles in a step of its own, and the continuation  *)
(* of the async function runs in a third step.                             *)
(***************************************************************************)
EXTENDS Integers, Sequences, FiniteSets, TLC

VARIABLES objs, log, promises

vars == <<objs, log, promises>>

\* ---------------------------------------------------------------- bounds
\* The number of calls (Optional.of included) the callers make.
MaxCalls == 3

\* ------------------------------------------------------- JavaScript values
\* A value is a tag (its typeof, with null and the two reference kinds
\* told apart) and a number: the number itself, the index of a string
\* (0 is the empty string), 0/1 for false/true, the identity of an object.
Null == [tag |-> "null", v |-> 0]
Undefined == [tag |-> "undefined", v |-> 0]
Num(n) == [tag |-> "number", v |-> n]
Str(n) == [tag |-> "string", v |-> n]
Bool(b) == [tag |-> "boolean", v |-> IF b THEN 1 ELSE 0]
Obj(n) == [tag |-> "object", v |-> n]
OptionalRef(i) == [tag |-> "Optional", v |-> i]
PromiseRef(p) == [tag |-> "Promise", v |-> p]

\* The values the callers store and pass as defaults.
Values == {Null, Undefined, Num(0), Num(6), Str(0), Bool(FALSE), Obj(1)}

\* ------------------------------------------------------------------ errors
NoError == [name |-> "", message |-> ""]

\* new NoSuchElementException(message): an Error whose name is set.
NoSuchElementException(message) ==
    [name |-> "NoSuchElementException", message |-> message]

\* Errors raised by caller-supplied functions.
CallerError == [name |-> "Error", message |-> "boom"]
CallerTypeError == [name |-> "TypeError", message |-> "not a function"]

\* ------------------------------------------------- outcomes of a call
Return(r, value, invoked) ==
    [outcome |-> "return", ret |-> r, err |-> NoError,
     value |-> value, invoked |-> invoked]

Throw(e, value, invoked) ==
    [outcome |-> "throw", ret |-> Undefined, err |-> e,
     value |-> value, invoked |-> invoked]

\* ------------------------------------------- caller-supplied functions
\* Actions given to ifPresent: one that returns, two that throw.
Funcs == {"logColors", "throwsError", "throwsTypeError"}

callFunc(f, v) ==
    CASE f = "logColors" -> [outcome |-> "return", err |-> NoError]
      [] f = "throwsError" -> [outcome |-> "throw", err |-> CallerError]
      [] f = "throwsTypeError" -> [outcome |-> "throw", err |-> CallerTypeError]

\* Predicates given to isPresentAnd.
Predicates == {"isStringValue", "isNumberValue", "greaterThanFive", "throwsError"}

callPredicate(p, v) ==
    CASE p = "isStringValue" ->
            [outcome |-> "return", ret |-> (v.tag = "string"), err |-> NoError]
      [] p = "isNumberValue" ->
            [outcome |-> "return", ret |-> (v.tag = "number"), err |-> NoError]
      [] p = "greaterThanFive" ->
            [outcome |-> "return", ret |-> (v.tag = "number" /\ v.v > 5),
             err |-> NoError]
      [] p = "throwsError" ->
            [outcome |-> "throw", ret |-> FALSE, err |-> CallerError]

\* Actions given to ifPresentAsync: the promise they return fulfils, or
\* rejects, or they throw before returning a promise.
AsyncFuncs == {"resolves", "rejects", "throwsError"}

callAsyncFunc(f, v) ==
    CASE f = "resolves" -> [outcome |-> "return", settle |-> "fulfilled", err |-> NoError]
      [] f = "rejects" -> [outcome |-> "return", settle |-> "rejected", err |-> CallerTypeError]
      [] f = "throwsError" -> [outcome |-> "throw", settle |-> "none", err |-> CallerError]

\* ------------------------------------------------------ Optional<T>
\* constructor(value): this._value = value
Optional(value) == value

isPresentTruthy(_value) ==
    CASE _value.tag \in {"null", "undefined"} -> FALSE
      [] _value.tag \in {"number", "string", "boolean"} -> _value.v # 0
      [] OTHER -> TRUE

isPresentNullOnly(_value) == _value # Null

\* isPresent(): this._value !== null && this._value !== undefined
isPresent(_value) == _value # Null /\ _value # Undefined

\* isEmpty(): !this.isPresent()
isEmpty(_value) == ~isPresent(_value)

getUnchecked(_value) == Return(_value, _value, <<>>)

\* get(): throws NoSuchElementException when not present, else the value.
get(_value) ==
    IF ~isPresent(_value)
    THEN Throw(NoSuchElementException(""), _value, <<>>)
    ELSE Return(_value, _value, <<>>)

orElseOverwrite(self, _value, value) ==
    Return(OptionalRef(self), value, <<>>)

orElseInverted(self, _value, value) ==
    Return(OptionalRef(self), IF isPresent(_value) THEN value ELSE _value, <<>>)

\* orElse(value): overwrites _value when empty; returns this.
orElse(self, _value, value) ==
    Return(OptionalRef(self), IF isEmpty(_value) THEN value ELSE _value, <<>>)

ifPresentAlways(_value, func) ==
    LET r == callFunc(func, _value)
    IN  IF r.outcome = "throw"
        THEN Throw(r.err, _value, <<_value>>)
        ELSE Return(Undefined, _value, <<_value>>)

\* ifPresent(func): func(this._value) when present; nothing is caught.
ifPresent(_value, func) ==
    IF isPresent(_value)
    THEN LET r == callFunc(func, _value)
         IN  IF r.outcome = "throw"
             THEN Throw(r.err, _value, <<_value>>)
             ELSE Return(Undefined, _value, <<_value>>)
    ELSE Return(Undefined, _value, <<>>)

isPresentAndEager(_value, predicate) ==
    LET r == callPredicate(predicate, _value)
    IN  IF r.outcome = "throw"
        THEN Throw(r.err, _value, <<_value>>)
        ELSE Return(Bool(r.ret /\ isPresent(_value)), _value, <<_value>>)

\* isPresentAnd(predicate): this.isPresent() && predicate(this._value)
isPresentAnd(_value, predicate) ==
    IF isPresent(_value)
    THEN LET r == callPredicate(predicate, _value)
         IN  IF r.outcome = "throw"
             THEN Throw(r.err, _value, <<_value>>)
             ELSE Return(Bool(r.ret), _value, <<_value>>)
    ELSE Return(Bool(FALSE), _value, <<>>)

\* The promise of an ifPresentAsync call.  state/err are the promise the
\* caller holds; action/settle/actionErr are the promise func returned
\* ("none" when func was not invoked or threw) and how it is going to settle.
PromiseRec(self, _value, func, invoked, action, settle, actionErr, state, err) ==
    [self |-> self, before |-> _value, func |-> func, invoked |-> invoked,
     action |-> action, settle |-> settle, actionErr |-> actionErr,
     state |-> state, err |-> err]

ifPresentAsyncNoAwait(self, _value, func) ==
    IF isPresent(_value)
    THEN LET r == callAsyncFunc(func, _value)
         IN  IF r.outcome = "throw"
             THEN PromiseRec(self, _value, func, <<_value>>, "none", "none",
                             NoError, "rejected", r.err)
             ELSE PromiseRec(self, _value, func, <<_value>>, "pending", r.settle,
                             r.err, "fulfilled", NoError)
    ELSE PromiseRec(self, _value, func, <<>>, "none", "none", NoError,
                    "fulfilled", NoError)

ifPresentAsyncAlways(self, _value, func) ==
    LET r == callAsyncFunc(func, _value)
    IN  IF r.outcome = "throw"
        THEN PromiseRec(self, _value, func, <<_value>>, "none", "none",
                        NoError, "rejected", r.err)
        ELSE PromiseRec(self, _value, func, <<_value>>, "pending", r.settle,
                        r.err, "pending", NoError)

\* ifPresentAsync(func), up to the await: the presence check and the call
\* of func run synchronously inside the call.  An empty receiver completes
\* the async function at once; a throw of func rejects its promise at once.
ifPresentAsync(self, _value, func) ==
    IF isPresent(_value)
    THEN LET r == callAsyncFunc(func, _value)
         IN  IF r.outcome = "throw"
             THEN PromiseRec(self, _value, func, <<_value>>, "none", "none",
                             NoError, "rejected", r.err)
             ELSE PromiseRec(self, _value, func, <<_value>>, "pending", r.settle,
                             r.err, "pending", NoError)
    ELSE PromiseRec(self, _value, func, <<>>, "none", "none", NoError,
                    "fulfilled", NoError)

resumeSwallow(p) ==
    [p EXCEPT !.state = "fulfilled", !.err = NoError]

\* ifPresentAsync(func), after the await: the async function ends, or the
\* rejection of the awaited promise is thrown out of it.
resume(p) ==
    IF p.action = "rejected"
    THEN [p EXCEPT !.state = "rejected", !.err = p.actionErr]
    ELSE [p EXCEPT !.state = "fulfilled", !.err = NoError]

\* ---------------------------------------------------------------- state
\* What the caller of one method call observed.
Entry(op, self, arg, func, before, r) ==
    [op |-> op, self |-> self, arg |-> arg, func |-> func, before |-> before,
     after |-> r.value, outcome |-> r.outcome, ret |-> r.ret, err |-> r.err,
     invoked |-> r.invoked]

Init ==
    /\ objs = <<>>
    /\ log = <<>>
    /\ promises = <<>>

\* Optional.of(value) / new Optional(value)
Of(value) ==
    /\ Len(log) < MaxCalls
    /\ objs' = Append(objs, Optional(value))
    /\ log' = Append(log, Entry("of", Len(objs) + 1, value, "", Undefined,
                               Return(OptionalRef(Len(objs) + 1), Optional(value), <<>>)))
    /\ UNCHANGED promises

Called(i, op, arg, func, r) ==
    /\ objs' = [objs EXCEPT ![i] = r.value]
    /\ log' = Append(log, Entry(op, i, arg, func, objs[i], r))
    /\ UNCHANGED promises

Get(i) ==
    /\ Len(log) < MaxCalls
    /\ Called(i, "get", Undefined, "", get(objs[i]))

OrElse(i, value) ==
    /\ Len(log) < MaxCalls
    /\ Called(i, "orElse", value, "", orElse(i, objs[i], value))

IfPresent(i, func) ==
    /\ Len(log) < MaxCalls
    /\ Called(i, "ifPresent", Undefined, func, ifPresent(objs[i], func))

IsEmpty(i) ==
    /\ Len(log) < MaxCalls
    /\ Called(i, "isEmpty", Undefined, "",
              Return(Bool(isEmpty(objs[i])), objs[i], <<>>))

IsPresent(i) ==
    /\ Len(log) < MaxCalls
    /\ Called(i, "isPresent", Undefined, "",
              Return(Bool(isPresent(objs[i])), objs[i], <<>>))

IsPresentAnd(i, predicate) ==
    /\ Len(log) < MaxCalls
    /\ Called(i, "isPresentAnd", Undefined, predicate,
              isPresentAnd(objs[i], predicate))

IfPresentAsync(i, func) ==
    /\ Len(log) < MaxCalls
    /\ LET p == ifPresentAsync(i, objs[i], func)
           r == Return(PromiseRef(Len(promises) + 1), objs[i], p.invoked)
       IN  /\ promises' = Append(promises, p)
           /\ log' = Append(log, Entry("ifPresentAsync", i, Undefined, func, objs[i], r))
    /\ UNCHANGED objs

\* The promise returned by func settles.
ActionSettles(k) ==
    /\ promises[k].action = "pending"
    /\ promises' = [promises EXCEPT ![k].action = promises[k].settle]
    /\ UNCHANGED <<objs, log>>

\* The continuation of ifPresentAsync runs once the awaited promise settled.
Resume(k) ==
    /\ promises[k].state = "pending"
    /\ promises[k].action \in {"fulfilled", "rejected"}
    /\ promises' = [promises EXCEPT ![k] = resume(promises[k])]
    /\ UNCHANGED <<objs, log>>

Next ==
    \/ \E value \in Values : Of(value)
    \/ \E i \in DOMAIN objs : Get(i)
    \/ \E i \in DOMAIN objs : \E value \in Values : OrElse(i, value)
    \/ \E i \in DOMAIN objs : \E func \in Funcs : IfPresent(i, func)
    \/ \E i \in DOMAIN objs : IsEmpty(i)
    \/ \E i \in DOMAIN objs : IsPresent(i)
    \/ \E i \in DOMAIN objs : \E predicate \in Predicates : IsPresentAnd(i, predicate)
    \/ \E i \in DOMAIN objs : \E func \in AsyncFuncs : IfPresentAsync(i, func)
    \/ \E k \in DOMAIN promises : ActionSettles(k)
    \/ \E k \in DOMAIN promises : Resume(k)

Spec == Init /\ [][Next]_vars

\* The continuation of an await is a queued job: it runs once enabled.
FairSpec == Spec /\ \A k \in 1..MaxCalls : WF_vars(k \in DOMAIN promises /\ Resume(k))

\* ------------------------------------------------------------ properties
\* The two absence sentinels of the specification.
IsSentinel(v) == v = Null \/ v = Undefined

\* The log entry of the call that returned promise k.
EntryOf(k) == CHOOSE n \in DOMAIN log : log[n].ret = PromiseRef(k)

C2_Presence ==
    \A n \in DOMAIN log :
        /\ log[n].op = "isPresent" =>
              /\ log[n].outcome = "return"
              /\ log[n].ret = Bool(~IsSentinel(log[n].before))
              /\ log[n].before \in {Num(0), Str(0), Bool(FALSE)} => log[n].ret = Bool(TRUE)
        /\ log[n].op = "isEmpty" =>
              /\ log[n].outcome = "return"
              /\ log[n].ret = Bool(IsSentinel(log[n].before))
              /\ \A m \in DOMAIN log :
                    (log[m].op = "isPresent" /\ log[m].before = log[n].before)
                    => log[m].ret # log[n].ret

C2_Witness ==
    /\ Len(log) = 3
    /\ log[2].op = "isPresent" /\ log[2].before = Num(0) /\ log[2].ret = Bool(TRUE)
    /\ log[3].op = "isEmpty" /\ log[3].self = log[2].self /\ log[3].ret = Bool(FALSE)

\* C3: orElse(d) returns the container it was called on; an empty
\* container then stores d, a present one keeps its value; a get() right
\* after it returns d (d present) resp. the value the container had.
C3_OrElse ==
    \A n \in DOMAIN log :
        log[n].op = "orElse" =>
            /\ log[n].outcome = "return"
            /\ log[n].ret = OptionalRef(log[n].self)
            /\ log[n].after = IF IsSentinel(log[n].before) THEN log[n].arg
                              ELSE log[n].before
            /\ (/\ n + 1 \in DOMAIN log
                /\ log[n + 1].op = "get"
                /\ log[n + 1].self = log[n].self)
               => /\ (IsSentinel(log[n].before) /\ ~IsSentinel(log[n].arg))
                        => (log[n + 1].outcome = "return" /\ log[n + 1].ret = log[n].arg)
                  /\ ~IsSentinel(log[n].before)
                        => (log[n + 1].outcome = "return" /\ log[n + 1].ret = log[n].before)

C3_Witness ==
    /\ Len(log) = 3
    /\ log[2].op = "orElse" /\ log[2].before = Null /\ log[2].arg = Obj(1)
    /\ log[3].op = "get" /\ log[3].self = log[2].self /\ log[3].ret = Obj(1)

\* C4: no step takes a container from PRESENT to EMPTY; a step takes a
\* container from EMPTY to PRESENT only if it is an orElse call on that
\* container with a present argument; an orElse call with null or
\* undefined leaves an empty container EMPTY.
C4_Transitions ==
    [][\A i \in DOMAIN objs :
          /\ ~IsSentinel(objs[i]) => ~IsSentinel(objs'[i])
          /\ (IsSentinel(objs[i]) /\ ~IsSentinel(objs'[i]))
             => /\ Len(log') = Len(log) + 1
                /\ log'[Len(log')].op = "orElse"
                /\ log'[Len(log')].self = i
                /\ ~IsSentinel(log'[Len(log')].arg)
          /\ (/\ Len(log') = Len(log) + 1
              /\ log'[Len(log')].op = "orElse"
              /\ log'[Len(log')].self = i
              /\ IsSentinel(log'[Len(log')].arg)
              /\ IsSentinel(objs[i]))
             => IsSentinel(objs'[i])]_vars

C4_Witness ==
    /\ Len(log) = 3
    /\ log[2].op = "orElse" /\ log[2].before = Null /\ log[2].arg = Undefined
    /\ log[2].after = Undefined
    /\ log[3].op = "orElse" /\ log[3].self = log[2].self /\ log[3].arg = Num(0)
    /\ objs[log[3].self] = Num(0)

\* C5: a get() that returns never returns null or undefined, also after
\* orElse was given null or undefined; get() returns a present value or
\* throws NoSuchElementException.
C5_NoSentinelLeak ==
    \A n \in DOMAIN log :
        log[n].op = "get" =>
            \/ log[n].outcome = "return" /\ ~IsSentinel(log[n].ret)
            \/ log[n].outcome = "throw" /\ log[n].err = NoSuchElementException("")

C5_Witness ==
    /\ Len(log) = 3
    /\ log[2].op = "orElse" /\ log[2].before = Null /\ log[2].arg = Undefined
    /\ log[3].op = "get" /\ log[3].self = log[2].self /\ log[3].before = Undefined
    /\ log[3].outcome = "throw"

\* C6: ifPresent(action) invokes action exactly once, inside the call and
\* with the stored value, when the container is present; on an empty
\* container it does not invoke action and returns without an error.
C6_IfPresent ==
    \A n \in DOMAIN log :
        log[n].op = "ifPresent" =>
            IF IsSentinel(log[n].before)
            THEN log[n].invoked = <<>> /\ log[n].outcome = "return"
            ELSE log[n].invoked = <<log[n].before>>

C6_Witness ==
    /\ Len(log) = 3
    /\ log[2].op = "ifPresent" /\ log[2].before = Bool(FALSE)
    /\ log[2].func = "logColors" /\ log[2].invoked = <<Bool(FALSE)>>
    /\ log[2].outcome = "return"
    /\ log[3].op = "ifPresent" /\ log[3].self = log[2].self
    /\ log[3].invoked = <<Bool(FALSE)>>

\* C7: the promise of ifPresentAsync on a present container is not
\* fulfilled before the promise returned by action is, and it is fulfilled
\* eventually once that promise is; on an empty container it is fulfilled
\* without action being invoked.
C7_AsyncAwaits ==
    /\ [](\A k \in DOMAIN promises :
            /\ (~IsSentinel(promises[k].before) /\ promises[k].state = "fulfilled")
               => (promises[k].invoked # <<>> /\ promises[k].action = "fulfilled")
            /\ IsSentinel(promises[k].before)
               => (promises[k].state = "fulfilled" /\ promises[k].invoked = <<>>))
    /\ \A k \in 1..MaxCalls :
          (k \in DOMAIN promises /\ promises[k].action = "fulfilled")
          ~> (k \in DOMAIN promises /\ promises[k].state = "fulfilled")

C7_Witness ==
    /\ Len(promises) = 1
    /\ promises[1].before = Num(0) /\ promises[1].invoked = <<Num(0)>>
    /\ promises[1].action = "fulfilled" /\ promises[1].state = "fulfilled"
    /\ log[Len(log)].op = "orElse" /\ log[Len(log)].self = promises[1].self

\* C8: isPresentAnd(predicate) returns true exactly when the container is
\* present and predicate(stored value) returns true; on an empty container
\* it returns false and the predicate is not invoked.
C8_IsPresentAnd ==
    \A n \in DOMAIN log :
        log[n].op = "isPresentAnd" =>
            LET r == callPredicate(log[n].func, log[n].before)
            IN  /\ (log[n].outcome = "return" /\ log[n].ret = Bool(TRUE))
                   <=> (/\ ~IsSentinel(log[n].before)
                        /\ r.outcome = "return" /\ r.ret)
                /\ IsSentinel(log[n].before)
                   => /\ log[n].outcome = "return"
                      /\ log[n].ret = Bool(FALSE)
                      /\ log[n].invoked = <<>>
                /\ (log[n].outcome = "return" /\ log[n].ret # Bool(TRUE))
                   => log[n].ret = Bool(FALSE)

C8_Witness ==
    /\ Len(log) = 3
    /\ log[2].op = "isPresentAnd" /\ log[2].func = "greaterThanFive"
    /\ log[2].before = Num(6) /\ log[2].ret = Bool(TRUE)
    /\ log[3].op = "isPresentAnd" /\ log[3].func = "isStringValue"
    /\ log[3].self = log[2].self /\ log[3].ret = Bool(FALSE)
    /\ log[3].invoked = <<Num(6)>>

\* C9: an error thrown by the action of ifPresent or the predicate of
\* isPresentAnd is the error the method throws; a rejection (or throw) of
\* the action of ifPresentAsync is the rejection of the promise
\* ifPresentAsync returned; the stored value is unchanged and the error is
\* neither swallowed nor replaced by NoSuchElementException.
C9_Propagation ==
    /\ \A n \in DOMAIN log :
          /\ (log[n].op = "ifPresent" /\ log[n].invoked # <<>>
              /\ callFunc(log[n].func, log[n].before).outcome = "throw")
             => /\ log[n].outcome = "throw"
                /\ log[n].err = callFunc(log[n].func, log[n].before).err
                /\ log[n].after = log[n].before
          /\ (log[n].op = "isPresentAnd" /\ log[n].invoked # <<>>
              /\ callPredicate(log[n].func, log[n].before).outcome = "throw")
             => /\ log[n].outcome = "throw"
                /\ log[n].err = callPredicate(log[n].func, log[n].before).err
                /\ log[n].after = log[n].before
          /\ log[n].op = "ifPresentAsync"
             => log[n].after = log[n].before /\ log[n].outcome = "return"
    /\ \A k \in DOMAIN promises :
          LET p == promises[k]
              r == callAsyncFunc(p.func, p.before)
          IN  p.invoked # <<>> =>
                /\ r.outcome = "throw" => (p.state = "rejected" /\ p.err = r.err)
                /\ (p.action = "rejected" /\ p.state # "pending")
                   => (p.state = "rejected" /\ p.err = r.err)

C9_Witness ==
    /\ Len(log) = 3
    /\ log[2].op = "ifPresent" /\ log[2].outcome = "throw"
    /\ log[2].err = CallerTypeError
    /\ log[3].op = "ifPresentAsync" /\ log[3].self = log[2].self
    /\ promises[1].action = "rejected" /\ promises[1].state = "rejected"
    /\ promises[1].err = CallerTypeError
    /\ objs[log[2].self] = log[2].before

\* C10: ifPresentAsync decides presence and reads the value inside the
\* call: a promise of a call on an empty container never has action
\* invoked, whatever orElse does to the container later, and a promise of
\* a call on a present container has action invoked exactly once with the
\* value held at the call, whatever is called while action is pending.
C10_PresenceAtCall ==
    \A k \in DOMAIN promises :
        /\ promises[k].invoked = IF IsSentinel(promises[k].before) THEN <<>>
                                 ELSE <<promises[k].before>>
        /\ log[EntryOf(k)].op = "ifPresentAsync"
        /\ log[EntryOf(k)].before = promises[k].before
        /\ log[EntryOf(k)].invoked = promises[k].invoked

C10_Witness ==
    /\ Len(log) = 3 /\ Len(promises) = 1
    /\ log[2].op = "ifPresentAsync" /\ log[2].before = Null
    /\ log[3].op = "orElse" /\ log[3].self = log[2].self
    /\ objs[log[2].self] = Num(6)
    /\ promises[1].invoked = <<>> /\ promises[1].state = "fulfilled"

====
